---------------------------- MODULE Spec2Model ----------------------------
(***************************************************************************)
(* Spatial indexes of the boids-rtree repository.                          *)
(*                                                                         *)
(*   Spec        BinLattice<WIDTH, HEIGHT, BINS, BIN_SIZE> of src/main.cpp *)
(*               (addBoid / clear / query), driven through its public      *)
(*               interface.                                                *)
(*   SpecConfig  the cell index of BinLattice over template arguments      *)
(*               WIDTH, HEIGHT, BINS drawn from 1..MaxDim.                 *)
(*   SpecHash    SpatialHashing<T> (insert / clear / update / query).      *)
(*   SpecHashDemo  SpatialHashing<T> as the demo uses it (insert / update  *)
(*               / query), with two cells sharing one bucket.              *)
(*   SpecLinear  Collection<T> (insert / clear / query / bounds).          *)
(*   SpecTree    RTree<T> (insert / clear / query / bounds).               *)
(*   SpecFrame   the frame loops of the two demo programs.                 *)
(*   SpecRequery each index queried again and again by its caller.         *)
(*   SpecStale   SpatialHashing under a caller that counts what its last   *)
(*               update() covered.                                         *)
(*   SpecFunctions  Box::contains, Vector2 comparison and the bucket index *)
(*               of a cell, over bounded arguments.                        *)
(*                                                                         *)
(* Positions are floats in the code.  Both demo programs only create       *)
(* integer-valued positions (rand() % WINDOW_WIDTH, mouse pixels), so the  *)
(* model uses integers; every float operation the code applies to them     *)
(* (division, truncation, floor, squared distance) is exact on such values *)
(* at the sizes used here.                                                 *)
(***************************************************************************)
EXTENDS Integers, Sequences, FiniteSets, TLC

(***************************************************************************)
(* Template arguments of the modelled BinLattice instantiation.  main()    *)
(* instantiates BinLattice<1000, 1000, 20, 100>; the model instantiates    *)
(* the same template as BinLattice<6, 6, 3, 2>: a square world, BINS       *)
(* dividing WIDTH, cells 2 units wide.                                     *)
(***************************************************************************)
WIDTH == 6
HEIGHT == 6
BINS == 3
BIN_SIZE == 2

\* Bounds of the model.
NBoids == 9         \* boids in the caller's vector
MaxAdds == 3        \* addBoid calls between two clear() calls
MaxRadius == 3      \* largest query radius tried

(***************************************************************************)
(* size_t is an unsigned 64-bit integer on the build's target; the model   *)
(* keeps its modular arithmetic with a modulus the checker's integers      *)
(* can hold.  Only values within a few units of 0 and of SIZE_MAX occur.   *)
(***************************************************************************)
SizeMod == 1073741824
SIZE_MAX == SizeMod - 1

VARIABLES
    lattice,    \* BinLattice::lattice: [first, second] per cell
    added,      \* caller: number of addBoid(&boid) calls per boid since clear()
    fault,      \* undefined behaviour executed so far, "none" if none
    lastQuery,  \* the latest query() call on the current contents, or NoQuery
    cfg,        \* SpecConfig: template arguments and position under test
    cfgCell,    \* SpecConfig: the cell index computed for cfg, or NoCell
    elements,   \* SpatialHashing::elements (the position of each element)
    box,        \* SpatialHashing::box
    shuffler,   \* SpatialHashing::shuffler
    hashtable,  \* SpatialHashing::hashtable
    pivots,     \* SpatialHashing::pivots
    indexed,    \* caller: update() has run and no insert()/clear() since
    hashQuery,  \* the latest SpatialHashing::query() call, or NoHashQuery
    colElements, \* Collection::elements (the position of each element)
    colBox,     \* Collection::box
    colQuery,   \* the latest Collection::query() call, or NoLinQuery
    rtree,      \* RTree::rtree: the stored values, in insertion order
    treeQuery,  \* the latest RTree::query() call, or NoLinQuery
    pc,         \* SpecFrame: the demo program running and its position
    call,       \* SpecFunctions: the function under check and its arguments
    ret         \* SpecFunctions: what the function returned, or NoReturn

gridVars == <<lattice, added, fault, lastQuery>>
cfgVars == <<cfg, cfgCell>>
fnVars == <<call, ret>>
hashVars == <<elements, box, shuffler, hashtable, pivots, indexed, hashQuery>>
linVars == <<colElements, colBox, colQuery>>
treeVars == <<rtree, treeQuery>>
vars == <<lattice, added, fault, lastQuery, cfg, cfgCell,
          elements, box, shuffler, hashtable, pivots, indexed, hashQuery,
          colElements, colBox, colQuery, rtree, treeQuery, pc, call, ret>>

---------------------------------------------------------------------------
(* The caller's boids (std::vector<Boid> boids in main).                   *)

Boids == 1..NBoids

\* Positions of the boids.  Boids 1..6 are inside the world rectangle, the
\* others outside it (at or beyond WIDTH, at or beyond HEIGHT, negative).
BoidTable ==
    << <<0, 0>>, <<1, 1>>, <<2, 3>>, <<4, 4>>, <<5, 5>>, <<5, 0>>,
       <<6, 3>>, <<3, 6>>, <<0 - 2, 1>> >>

position(b) ==
    IF b <= Len(BoidTable) THEN BoidTable[b]
    ELSE <<(3 * b) % WIDTH, (5 * b + 1) % HEIGHT>>

\* Coordinates a query centre may take: the world rectangle, one cell below
\* it and the first coordinate above it.
Coords == (0 - (WIDTH \div BINS))..WIDTH
Positions == Coords \X Coords
Radii == 0..MaxRadius

InBounds(p) == p[1] >= 0 /\ p[1] < WIDTH /\ p[2] >= 0 /\ p[2] < HEIGHT

---------------------------------------------------------------------------
(* Arithmetic of the code.                                                 *)

\* float division followed by truncation toward zero (the value a
\* float -> integer conversion keeps).
TruncDiv(x, c) == IF x >= 0 THEN x \div c ELSE 0 - ((0 - x) \div c)

\* static_cast<size_t>(coordinate / cellSize): the set of values the
\* conversion can yield.  A truncated value that size_t cannot hold is
\* undefined behaviour: builds either wrap it modulo 2^64 or saturate to 0.
\* Division by a zero cell size gives an infinity or NaN, whose conversion
\* is undefined as well.
ToSizeT(x, c) ==
    IF c = 0 THEN {0, SizeMod \div 2, SIZE_MAX}
    ELSE IF TruncDiv(x, c) >= 0 THEN {TruncDiv(x, c)}
    ELSE {0, SizeMod + TruncDiv(x, c)}

CellIndexRoundUp(coordinate, dim, bins) ==
    {v + (IF coordinate % (dim \div bins) = 0 /\ v > 0 THEN 0 - 1 ELSE 0) :
        v \in ToSizeT(coordinate, dim \div bins)}

\* xIndex / yIndex of addBoid and query.
CellIndex(coordinate, dim, bins) == ToSizeT(coordinate, dim \div bins)

\* std::clamp(v, lo, hi)
Clamp(v, lo, hi) == IF v < lo THEN lo ELSE IF hi < v THEN hi ELSE v

\* std::clamp(xIndex + dx, 0ul, BINS - 1): xIndex + dx is computed in size_t.
NeighbourIndex(index, d) == Clamp((index + d) % SizeMod, 0, BINS - 1)

ScanOrderFiveByFive ==
    [k \in 1..25 |-> <<((k - 1) \div 5) - 2, ((k - 1) % 5) - 2>>]

\* The (dx, dy) pairs in the order of the two nested loops of query.
ScanOrder ==
    << <<0 - 1, 0 - 1>>, <<0 - 1, 0>>, <<0 - 1, 1>>,
       <<0, 0 - 1>>, <<0, 0>>, <<0, 1>>,
       <<1, 0 - 1>>, <<1, 0>>, <<1, 1>> >>

\* The cells query visits, in order, for the centre cell (xIndex, yIndex).
ScannedCells(xIndex, yIndex) ==
    [k \in 1..Len(ScanOrder) |->
        <<NeighbourIndex(xIndex, ScanOrder[k][1]),
          NeighbourIndex(yIndex, ScanOrder[k][2])>>]

DistSquared(p, q) ==
    (p[1] - q[1]) * (p[1] - q[1]) + (p[2] - q[2]) * (p[2] - q[2])

WithinRadiusInclusive(b, centre, radius) ==
    DistSquared(position(b), centre) <= radius * radius

\* (distX * distX + distY * distY) < radiusSquared
WithinRadius(b, centre, radius) ==
    DistSquared(position(b), centre) < radius * radius

\* The entries of one bin that query copies to the result: first[0..second-1]
\* filtered by the distance test, in slot order.
RECURSIVE BinMatches(_, _, _, _)
BinMatches(bin, i, centre, radius) ==
    IF i > bin.second THEN <<>>
    ELSE (IF WithinRadius(bin.first[i], centre, radius)
          THEN <<bin.first[i]>> ELSE <<>>)
         \o BinMatches(bin, i + 1, centre, radius)

RECURSIVE Collect(_, _, _, _, _)
Collect(lat, cells, k, centre, radius) ==
    IF k > Len(cells) THEN <<>>
    ELSE BinMatches(lat[cells[k]], 1, centre, radius)
         \o Collect(lat, cells, k + 1, centre, radius)

\* static constexpr size_t MaxQuerySize = BIN_SIZE * 9
MaxQuerySize == BIN_SIZE * 9

---------------------------------------------------------------------------
(* SpatialHashing<T>                                                       *)

\* uint cellSize = 50
cellSize == 50

\* Number of buckets of the table update() builds (uint pivotTableSize; 1000
\* in the code, a bound here).
pivotTableSize == 4

MaxElements == 3    \* insert() calls between two clear() calls

\* Positions handed to insert(): one in cell (0, 0) and one in cell (-1, 0),
\* left of the world box.  Several elements may share a position.
HashPositions == { <<25, 10>>, <<0 - 10, 20>> }

\* The positions of SpecHashDemo: those above and one in cell (4, 0), four
\* cells to the right of cell (0, 0) and hashed to the same bucket.
CollidingPositions == HashPositions \cup { <<225, 10>> }

\* #define RADIUS 50 of the spatial hashing demo.
RADIUS == 50

\* Constructor arguments of main: SpatialHashing<Body> tree(1000, 1000).
WorldBox == [left |-> 0, top |-> 0, width |-> 1000, height |-> 1000]

Min(a, b) == IF a < b THEN a ELSE b
Max(a, b) == IF a < b THEN b ELSE a

\* Box::merge(point): the bounding union of the box and the point.
Merge(b, p) ==
    LET l == Min(b.left, p[1])
        t == Min(b.top, p[2])
        r == Max(b.left + b.width, p[1])
        d == Max(b.top + b.height, p[2])
    IN [left |-> l, top |-> t, width |-> r - l, height |-> d - t]

\* int2(std::floor(pos.x / cellSize), std::floor(pos.y / cellSize))
getCellCoordinates(pos) == <<pos[1] \div cellSize, pos[2] \div cellSize>>

\* The low 32 bits of a * b, as the pair <<high 16 bits, low 16 bits>>;
\* computed on 16-bit limbs so that no intermediate exceeds 31 bits.
\* a is a cell coordinate within 15 bits, b a prime below 2^24.
Mul32(a, b) ==
    LET bl == b % 65536
        bh == b \div 65536
        low == a * bl
        lo == low % 65536
        carry == (low - lo) \div 65536
    IN <<(a * bh + carry) % 65536, lo>>

Pow2 == <<1, 2, 4, 8, 16, 32, 64, 128, 256, 512, 1024, 2048, 4096, 8192,
          16384, 32768>>

\* Bitwise exclusive or of two naturals below 2^16, bit i and above.
RECURSIVE XorFrom(_, _, _)
XorFrom(a, b, i) ==
    IF i > Len(Pow2) THEN 0
    ELSE (((a \div Pow2[i]) + (b \div Pow2[i])) % 2) * Pow2[i]
         + XorFrom(a, b, i + 1)

Xor(a, b) == XorFrom(a, b, 1)

\* static_cast<uint>(coord.x * prime.x) ^ static_cast<uint>(coord.y * prime.y)
\* with prime = (15823, 9737333), as <<high 16 bits, low 16 bits>>.
hash(coord) ==
    LET px == Mul32(coord[1], 15823)
        py == Mul32(coord[2], 9737333)
    IN <<Xor(px[1], py[1]), Xor(px[2], py[2])>>

\* The remainder of the hash read as a signed int.
IndexOfHashSigned(h) ==
    IF h[1] < 32768
    THEN (((h[1] % pivotTableSize) * (65536 % pivotTableSize)) + h[2])
             % pivotTableSize
    ELSE 0 - (((((65535 - h[1]) % pivotTableSize) * (65536 % pivotTableSize))
                  + (65536 - h[2])) % pivotTableSize)

\* h % pivotTableSize for the unsigned 32-bit h = <<high 16 bits, low 16
\* bits>>, widened to size_type.
IndexOfHash(h) ==
    (((h[1] % pivotTableSize) * (65536 % pivotTableSize)) + h[2])
        % pivotTableSize

\* hash(coord) % pivotTableSize
getCellIndex(coord) == IndexOfHash(hash(coord))

\* getCellIndex(getCellCoordinates(pos)) for every position in use,
\* evaluated once.
BucketTable ==
    [pos \in CollidingPositions |-> getCellIndex(getCellCoordinates(pos))]

\* The bucket of the element at a position.
BucketOf(pos) == BucketTable[pos]

\* C++ vectors are sequences here: v[i] of the code is At(v, i).
At(v, i) == v[i + 1]
Put(v, i, x) == [v EXCEPT ![i + 1] = x]
Zeros(n) == [k \in 1..n |-> 0]

RECURSIVE CountUsageByIndex(_, _, _)
CountUsageByIndex(els, k, piv) ==
    IF k > Len(els) THEN piv
    ELSE CountUsageByIndex(els, k + 1,
             Put(piv, (k - 1) % pivotTableSize,
                 At(piv, (k - 1) % pivotTableSize) + 1))

\* for (const auto &element : elements) pivots[getCellIndex(coord)]++
RECURSIVE CountUsage(_, _, _)
CountUsage(els, k, piv) ==
    IF k > Len(els) THEN piv
    ELSE CountUsage(els, k + 1,
             Put(piv, BucketOf(els[k]), At(piv, BucketOf(els[k])) + 1))

\* for (auto &pivot : pivots) { usage = pivot; pivot = start; start += usage; }
RECURSIVE StartIndexes(_, _, _)
StartIndexes(piv, k, start) ==
    IF k > Len(piv) THEN piv
    ELSE StartIndexes([piv EXCEPT ![k] = start], k + 1, start + piv[k])

\* The outcomes of std::shuffle on 0..n-1: every permutation.
Shuffles(n) ==
    {s \in [1..n -> 0..(n - 1)] : \A i, j \in 1..n : i # j => s[i] # s[j]}

RECURSIVE FillNoAdvance(_, _, _, _)
FillNoAdvance(els, k, table, piv) ==
    IF k > Len(els) THEN [hashtable |-> table, pivots |-> piv]
    ELSE FillNoAdvance(els, k + 1, Put(table, At(piv, BucketOf(els[k])), k - 1),
                       piv)

\* for (auto &element : elements) {
\*     auto index = pivots[getCellIndex(coord)]++; hashtable[index] = i; ++i; }
\* k is i + 1.  Yields the table and the advanced pivots.
RECURSIVE Fill(_, _, _, _)
Fill(els, k, table, piv) ==
    IF k > Len(els) THEN [hashtable |-> table, pivots |-> piv]
    ELSE LET b == BucketOf(els[k])
             index == At(piv, b)
         IN Fill(els, k + 1, Put(table, index, k - 1), Put(piv, b, index + 1))

RepositionNoReset(piv) ==
    [k \in 1..(Len(piv) + 1) |-> IF k = 1 THEN piv[1] ELSE piv[k - 1]]

\* pivots.push_back(pivots.back());
\* for (i = pivots.size() - 1; i > 0; --i) pivots[i] = pivots[i - 1];
\* pivots[0] = 0;
Reposition(piv) ==
    [k \in 1..(Len(piv) + 1) |-> IF k = 1 THEN 0 ELSE piv[k - 1]]

\* The predicates handed to query(): Distance<T>(search, radius) and
\* PassThrough<T>().
Distance(search, radius) ==
    [kind |-> "Distance", search |-> search, radius |-> radius]
PassThrough == [kind |-> "PassThrough", search |-> <<0, 0>>, radius |-> 0]

\* pred(el): Distance is (el.position - search).lengthSquared() <
\* radius * radius, PassThrough is true.
Holds(pred, pos) ==
    IF pred.kind = "Distance"
    THEN DistSquared(pos, pred.search) < pred.radius * pred.radius
    ELSE TRUE

\* The values of maxClosest tried: 0, 1 and the default max_size_type::max().
MaxClosestChoices == {0, 1, SIZE_MAX}

NoHashQuery == [called |-> FALSE, fault |-> "none"]

\* No call so far has executed undefined behaviour on the hash.
HashOk == hashQuery.fault = "none"

\* pred(elements[index]).  An index at or above elements.size() reads past
\* the vector's live range: what the predicate then yields is `stale`.
ElementMatches(els, index, pred, stale) ==
    IF index < Len(els) THEN Holds(pred, At(els, index)) ELSE stale

ScanBucketNoPredicate(els, table, i, end, count, pred, maxClosest, stale) ==
    [j \in 1..(IF end - i < maxClosest - count THEN end - i
               ELSE maxClosest - count) |-> At(table, i + j - 1)]

\* for (size_type i = start; i < end; i++) {
\*     if (count++ >= maxClosest) break;
\*     if (pred(elements[hashtable[i]])) result.push_back(...); }
\* The result is the sequence of the indices of the returned elements.
RECURSIVE ScanBucket(_, _, _, _, _, _, _, _)
ScanBucket(els, table, i, end, count, pred, maxClosest, stale) ==
    IF i >= end THEN <<>>
    ELSE IF count >= maxClosest THEN <<>>
    ELSE (IF ElementMatches(els, At(table, i), pred, stale)
          THEN <<At(table, i)>> ELSE <<>>)
         \o ScanBucket(els, table, i + 1, end, count + 1, pred, maxClosest,
                       stale)

\* The slots of hashtable the loop of query reads between start and end.
ScannedSlots(start, end, maxClosest) ==
    {i \in start..(end - 1) : i - start < maxClosest}

\* SpatialHashing(width, height): box(0, 0, width, height), empty vectors.
HashInit ==
    /\ elements = <<>>
    /\ box = WorldBox
    /\ shuffler = <<>>
    /\ hashtable = <<>>
    /\ pivots = <<>>
    /\ indexed = FALSE
    /\ hashQuery = NoHashQuery

\* void insert(const T& data)
InsertCall(pos) ==
    /\ HashOk
    /\ Len(elements) < MaxElements
    /\ elements' = Append(elements, pos)
    /\ box' = Merge(box, pos)
    /\ indexed' = FALSE
    /\ hashQuery' = NoHashQuery
    /\ UNCHANGED <<shuffler, hashtable, pivots, gridVars, cfgVars, fnVars, linVars,
                   treeVars>>

Insert(pos) == InsertCall(pos) /\ UNCHANGED pc

\* void clear()   (SpatialHashing)
HashClearCall ==
    /\ HashOk
    /\ elements' = <<>>
    /\ indexed' = FALSE
    /\ hashQuery' = NoHashQuery
    /\ UNCHANGED <<box, shuffler, hashtable, pivots, gridVars, cfgVars, fnVars,
                   linVars, treeVars>>

HashClear == HashClearCall /\ UNCHANGED pc

\* void update()
UpdateCall ==
    LET usage == CountUsage(elements, 1, Zeros(pivotTableSize))
        starts == StartIndexes(usage, 1, 0)
        filled == Fill(elements, 1, Zeros(Len(elements)), starts)
    IN  /\ HashOk
        /\ shuffler' \in Shuffles(Len(elements))
        /\ hashtable' = filled.hashtable
        /\ pivots' = Reposition(filled.pivots)
        /\ indexed' = TRUE
        /\ hashQuery' = NoHashQuery
        /\ UNCHANGED <<elements, box, gridVars, cfgVars, fnVars, linVars, treeVars>>

Update == UpdateCall /\ UNCHANGED pc

\* query_type query(const T &element, pred, size_t maxClosest)
\* pivots[pivot_index] on the empty pivots of an index never updated, and
\* elements[hashtable[i]] with a slot that outlived clear(), read out of
\* range: the call is recorded with its fault and with what it returned.
HashQueryCall(point, pred, maxClosest) ==
    LET pivot_index == BucketOf(point)
        built == Len(pivots) > pivot_index + 1
        start == IF built THEN At(pivots, pivot_index) ELSE 0
        end == IF built THEN At(pivots, pivot_index + 1) ELSE 0
        outside == \E i \in ScannedSlots(start, end, maxClosest) :
                       At(hashtable, i) >= Len(elements)
    IN  /\ HashOk
        /\ \E stale \in BOOLEAN :
               hashQuery' =
                   [called |-> TRUE,
                    point |-> point,
                    pred |-> pred,
                    maxClosest |-> maxClosest,
                    pivot_index |-> pivot_index,
                    result |-> ScanBucket(elements, hashtable, start, end, 0,
                                          pred, maxClosest, stale),
                    fault |-> IF ~built THEN "pivots_index"
                              ELSE IF outside THEN "elements_index"
                              ELSE "none"]
        /\ UNCHANGED <<elements, box, shuffler, hashtable, pivots, indexed,
                       gridVars, cfgVars, fnVars, linVars, treeVars>>

\* One recorded call per contents of the hash: the first after the latest
\* insert, clear or update.
HashQuery(point, pred, maxClosest) ==
    /\ ~hashQuery.called
    /\ HashQueryCall(point, pred, maxClosest)
    /\ UNCHANGED pc

\* The predicates tried at a query point: the demo's Distance around the
\* point, and PassThrough.
PredicatesAt(point) == {Distance(point, RADIUS), PassThrough}

HashNext ==
    \/ \E pos \in HashPositions : Insert(pos)
    \/ HashClear
    \/ Update
    \/ \E point \in HashPositions, maxClosest \in MaxClosestChoices :
           \E pred \in PredicatesAt(point) : HashQuery(point, pred, maxClosest)

\* The interface as the demo drives it: no clear().
HashDemoNext ==
    \/ \E pos \in CollidingPositions : Insert(pos)
    \/ Update
    \/ \E point \in CollidingPositions, maxClosest \in MaxClosestChoices :
           \E pred \in PredicatesAt(point) : HashQuery(point, pred, maxClosest)

---------------------------------------------------------------------------
(* Collection<T>                                                           *)

NoLinQuery == [called |-> FALSE]

\* Boxf(0, 0, 0, 0)
ZeroBox == [left |-> 0, top |-> 0, width |-> 0, height |-> 0]

\* The predicates handed to Collection::query and RTree::query.
Predicates == {Distance(p, RADIUS) : p \in CollidingPositions} \cup {PassThrough}

CollectionQueryCountAll(els, i, count, pred, maxClosest) ==
    ScanBucket(els, [k \in 1..Len(els) |-> k - 1], i, Len(els), count, pred,
               maxClosest, FALSE)

\* for (auto& element : elements) {
\*     if (pred(element)) { if (count++ >= maxClosest) break;
\*                          result.push_back(element); } }
\* i is the 0-based index of the element the loop is at; the result is the
\* sequence of the indices of the returned elements.
RECURSIVE CollectionQuery(_, _, _, _, _)
CollectionQuery(els, i, count, pred, maxClosest) ==
    IF i >= Len(els) THEN <<>>
    ELSE IF Holds(pred, At(els, i))
         THEN (IF count >= maxClosest THEN <<>>
               ELSE <<i>> \o CollectionQuery(els, i + 1, count + 1, pred,
                                             maxClosest))
         ELSE CollectionQuery(els, i + 1, count, pred, maxClosest)

\* The number of times the loop of Collection::query calls pred: once for
\* every element it reaches, the one it breaks on included.
RECURSIVE CollectionQueryEvaluations(_, _, _, _, _)
CollectionQueryEvaluations(els, i, count, pred, maxClosest) ==
    IF i >= Len(els) THEN 0
    ELSE IF Holds(pred, At(els, i))
         THEN (IF count >= maxClosest THEN 1
               ELSE 1 + CollectionQueryEvaluations(els, i + 1, count + 1,
                                                   pred, maxClosest))
         ELSE 1 + CollectionQueryEvaluations(els, i + 1, count, pred,
                                             maxClosest)

\* Collection() : box(0, 0, 0, 0) {}
LinearInit ==
    /\ colElements = <<>>
    /\ colBox = ZeroBox
    /\ colQuery = NoLinQuery

\* void insert(const T& data)   (Collection)
ColInsert(pos) ==
    /\ Len(colElements) < MaxElements
    /\ colElements' = Append(colElements, pos)
    /\ colBox' = Merge(colBox, pos)
    /\ colQuery' = NoLinQuery
    /\ UNCHANGED <<gridVars, cfgVars, fnVars, hashVars, treeVars, pc>>

\* void clear() { elements.clear(); }   (Collection)
ColClear ==
    /\ colElements' = <<>>
    /\ colQuery' = NoLinQuery
    /\ UNCHANGED <<colBox, gridVars, cfgVars, fnVars, hashVars, treeVars, pc>>

\* query_type query(pred, size_t maxClosest)   (Collection)
ColQueryCall(pred, maxClosest) ==
    /\ colQuery' = [called |-> TRUE,
                    pred |-> pred,
                    maxClosest |-> maxClosest,
                    result |-> CollectionQuery(colElements, 0, 0, pred,
                                               maxClosest),
                    evaluated |-> CollectionQueryEvaluations(
                                      colElements, 0, 0, pred, maxClosest)]
    /\ UNCHANGED <<colElements, colBox, gridVars, cfgVars, fnVars, hashVars,
                   treeVars>>

\* One recorded call per contents.
ColQuery(pred, maxClosest) ==
    /\ ~colQuery.called
    /\ ColQueryCall(pred, maxClosest)
    /\ UNCHANGED pc

LinearNext ==
    \/ \E pos \in CollidingPositions : ColInsert(pos)
    \/ ColClear
    \/ \E pred \in Predicates, maxClosest \in MaxClosestChoices :
           ColQuery(pred, maxClosest)

---------------------------------------------------------------------------
(* RTree<T>                                                                *)

\* bounds_type bounds() const { return Boxf(0, 0, 0, 0); }
RTreeBounds == ZeroBox

\* The orders in which rtree.query can hand the n stored values to the
\* predicate of bgi::satisfies: the traversal order of the tree is the
\* library's, each stored value is tested once.
VisitOrders(n) ==
    {s \in [1..n -> 0..(n - 1)] : \A i, j \in 1..n : i # j => s[i] # s[j]}

\* rtree.query(bgi::satisfies([&](auto const& el) {
\*     if (count++ >= maxClosest) return false; return pred(el); }), ...)
\* k is the position in the visit order; the result is the sequence of the
\* indices of the returned values.
RECURSIVE RTreeQuery(_, _, _, _, _, _)
RTreeQuery(values, order, k, count, pred, maxClosest) ==
    IF k > Len(order) THEN <<>>
    ELSE (IF count >= maxClosest THEN <<>>
          ELSE IF Holds(pred, At(values, order[k])) THEN <<order[k]>>
          ELSE <<>>)
         \o RTreeQuery(values, order, k + 1, count + 1, pred, maxClosest)

TreeInit ==
    /\ rtree = <<>>
    /\ treeQuery = NoLinQuery

\* void insert(const T& data) { rtree.insert(data); }
TreeInsert(pos) ==
    /\ Len(rtree) < MaxElements
    /\ rtree' = Append(rtree, pos)
    /\ treeQuery' = NoLinQuery
    /\ UNCHANGED <<gridVars, cfgVars, fnVars, hashVars, linVars, pc>>

\* void clear() { rtree.clear(); }
TreeClear ==
    /\ rtree' = <<>>
    /\ treeQuery' = NoLinQuery
    /\ UNCHANGED <<gridVars, cfgVars, fnVars, hashVars, linVars, pc>>

\* query_type query(pred, size_t maxClosest)   (RTree)
\* One recorded call per contents.
TreeQuery(pred, maxClosest) ==
    /\ ~treeQuery.called
    /\ \E order \in VisitOrders(Len(rtree)) :
           treeQuery' = [called |-> TRUE,
                         pred |-> pred,
                         maxClosest |-> maxClosest,
                         result |-> RTreeQuery(rtree, order, 1, 0, pred,
                                               maxClosest)]
    /\ UNCHANGED <<rtree, gridVars, cfgVars, fnVars, hashVars, linVars, pc>>

TreeNext ==
    \/ \E pos \in CollidingPositions : TreeInsert(pos)
    \/ TreeClear
    \/ \E pred \in Predicates, maxClosest \in MaxClosestChoices :
           TreeQuery(pred, maxClosest)

---------------------------------------------------------------------------
(* BinLattice                                                              *)

Cells == (0..(BINS - 1)) \X (0..(BINS - 1))

\* A bin is std::pair<std::array<Boid*, BIN_SIZE>, size_t>.  first holds the
\* live slots first[0..second-1] (1-based here); the slots at and above
\* second are never read by addBoid or query and are not kept.
EmptyBin == [first |-> <<>>, second |-> 0]

NoQuery == [called |-> FALSE]

\* BinLattice(): every count 0.
EmptyLattice == [c \in Cells |-> EmptyBin]

NoAdds == [b \in Boids |-> 0]
NoCfg == [w |-> 0, h |-> 0, bins |-> 0, pos |-> <<0, 0>>]
NoCell == <<>>

GridInit ==
    /\ lattice = EmptyLattice
    /\ added = NoAdds
    /\ fault = "none"
    /\ lastQuery = NoQuery

\* void clear(): bin.second = 0 for every bin.
ClearCall ==
    /\ fault = "none"
    /\ lattice' = [c \in Cells |-> [first |-> <<>>, second |-> 0]]
    /\ added' = NoAdds
    /\ lastQuery' = NoQuery
    /\ UNCHANGED <<fault, cfgVars, fnVars, hashVars, linVars, treeVars>>

Clear == ClearCall /\ UNCHANGED pc

\* Number of addBoid calls since the last clear(), over boids 1..b.
RECURSIVE AddCalls(_)
AddCalls(b) == IF b = 0 THEN 0 ELSE added[b] + AddCalls(b - 1)

AddedTotal == AddCalls(NBoids)

StoreInBinNoIncrement(bin, b) ==
    {[first |-> bin.first, second |-> bin.second]}

\* bin.first[bin.second++] = boid, on a bin inside the lattice.  With
\* second = BIN_SIZE the store goes one slot past the array, which is where
\* the pair keeps second: the count ends as BIN_SIZE + 1 or as the pointer
\* value, depending on the order the build stores and increments in.
StoreInBin(bin, b) ==
    IF bin.second < BIN_SIZE
    THEN {[first |-> Append(bin.first, b), second |-> bin.second + 1]}
    ELSE {[first |-> bin.first, second |-> BIN_SIZE + 1],
          [first |-> bin.first, second |-> SIZE_MAX - b]}

\* void addBoid(Boid* boid)
AddBoidAt(b, xIndex, yIndex) ==
    LET flat == xIndex * BINS + yIndex
        inside == xIndex < BINS /\ yIndex < BINS
        \* lattice[xIndex][yIndex] with an index >= BINS is an unchecked
        \* std::array access: it lands on another bin of the contiguous
        \* lattice when the flat offset is inside it, outside the object
        \* otherwise.
        aliased == xIndex < BINS /\ flat < BINS * BINS
        cell == IF inside THEN <<xIndex, yIndex>>
                ELSE <<flat \div BINS, flat % BINS>>
    IN  /\ added' = [added EXCEPT ![b] = @ + 1]
        /\ lastQuery' = NoQuery
        /\ IF inside \/ aliased
           THEN /\ \E nb \in StoreInBin(lattice[cell], b) :
                       lattice' = [lattice EXCEPT ![cell] = nb]
                /\ fault' = IF ~inside THEN "lattice_index"
                            ELSE IF lattice[cell].second >= BIN_SIZE
                                 THEN "bin_overflow"
                                 ELSE "none"
           ELSE /\ lattice' = lattice
                /\ fault' = "lattice_index"

AddBoidCall(b) ==
    /\ fault = "none"
    /\ AddedTotal < MaxAdds
    /\ \E xIndex \in CellIndex(position(b)[1], WIDTH, BINS) :
       \E yIndex \in CellIndex(position(b)[2], HEIGHT, BINS) :
           AddBoidAt(b, xIndex, yIndex)
    /\ UNCHANGED <<cfgVars, fnVars, hashVars, linVars, treeVars>>

AddBoid(b) == AddBoidCall(b) /\ UNCHANGED pc

\* A query that empties the bins it has read.
QueryCallDraining(centre, radius) ==
    /\ fault = "none"
    /\ \E xIndex \in CellIndex(centre[1], WIDTH, BINS) :
       \E yIndex \in CellIndex(centre[2], HEIGHT, BINS) :
           /\ lastQuery' = [called |-> TRUE,
                            centre |-> centre,
                            radius |-> radius,
                            xIndex |-> xIndex,
                            yIndex |-> yIndex,
                            scanned |-> ScannedCells(xIndex, yIndex),
                            result |-> Collect(lattice,
                                               ScannedCells(xIndex, yIndex),
                                               1, centre, radius)]
           /\ lattice' = [c \in Cells |->
                             IF \E k \in 1..Len(ScanOrder) :
                                    ScannedCells(xIndex, yIndex)[k] = c
                             THEN [first |-> <<>>, second |-> 0]
                             ELSE lattice[c]]
    /\ UNCHANGED <<added, fault, cfgVars, fnVars, hashVars, linVars, treeVars>>

\* void query(sf::Vector2f &position, QueryResult& result, float radius)
\* result is result.first[0..result.second-1].
QueryCall(centre, radius) ==
    /\ fault = "none"
    /\ \E xIndex \in CellIndex(centre[1], WIDTH, BINS) :
       \E yIndex \in CellIndex(centre[2], HEIGHT, BINS) :
           lastQuery' = [called |-> TRUE,
                         centre |-> centre,
                         radius |-> radius,
                         xIndex |-> xIndex,
                         yIndex |-> yIndex,
                         scanned |-> ScannedCells(xIndex, yIndex),
                         result |-> Collect(lattice, ScannedCells(xIndex, yIndex),
                                            1, centre, radius)]
    /\ UNCHANGED <<lattice, added, fault, cfgVars, fnVars, hashVars, linVars, treeVars>>

\* query leaves the lattice as it is, so the interface-driven model records
\* one call per contents: the first one after the latest addBoid or clear.
Query(centre, radius) ==
    /\ ~lastQuery.called
    /\ QueryCall(centre, radius)
    /\ UNCHANGED pc

ConfigIdle == cfg = NoCfg /\ cfgCell = NoCell

\* No function is under check.
NoCall == [fn |-> "none"]
NoReturn == [returned |-> FALSE]
FunctionsIdle == call = NoCall /\ ret = NoReturn

\* No demo program is running: the objects are driven through their
\* interfaces.
NoProgram == [prog |-> "none"]

Init ==
    /\ GridInit /\ ConfigIdle /\ HashInit /\ LinearInit /\ TreeInit
    /\ FunctionsIdle
    /\ pc = NoProgram

Next ==
    \/ Clear
    \/ \E b \in Boids : AddBoid(b)
    \/ \E centre \in Positions, radius \in Radii : Query(centre, radius)

Spec == Init /\ [][Next]_vars

---------------------------------------------------------------------------
(* The cell index over the template arguments.                             *)

MaxDim == 4

ConfigInit ==
    /\ \E w \in 1..MaxDim, h \in 1..MaxDim, bins \in 1..MaxDim :
       \E x \in 0..(w - 1), y \in 0..(h - 1) :
           cfg = [w |-> w, h |-> h, bins |-> bins, pos |-> <<x, y>>]
    /\ cfgCell = NoCell
    /\ GridInit
    /\ HashInit
    /\ LinearInit
    /\ TreeInit
    /\ FunctionsIdle
    /\ pc = NoProgram

\* xIndex and yIndex as addBoid and query compute them for cfg.pos in
\* BinLattice<cfg.w, cfg.h, cfg.bins, BIN_SIZE>.
ComputeCell ==
    /\ cfgCell = NoCell
    /\ \E xIndex \in CellIndex(cfg.pos[1], cfg.w, cfg.bins) :
       \E yIndex \in CellIndex(cfg.pos[2], cfg.h, cfg.bins) :
           cfgCell' = <<xIndex, yIndex>>
    /\ UNCHANGED <<cfg, fnVars, gridVars, hashVars, linVars, treeVars, pc>>

ConfigNext == ComputeCell

SpecConfig == ConfigInit /\ [][ConfigNext]_vars

SpecHash == Init /\ [][HashNext]_vars

SpecHashDemo == Init /\ [][HashDemoNext]_vars

SpecLinear == Init /\ [][LinearNext]_vars

SpecTree == Init /\ [][TreeNext]_vars

---------------------------------------------------------------------------
(* The frame loops of the two demo programs.  pc holds the program that    *)
(* runs, the statement it is at, the index of the loop it is in and the    *)
(* mouse position read in the current frame.                               *)

\* The boids of the grid demo: rand() % WINDOW_WIDTH and rand() %
\* WINDOW_HEIGHT place every one of them inside the world rectangle.
FrameBoids == {b \in 1..MaxAdds : InBounds(position(b))}

\* #define RADIUS 100 of the grid demo: twice the cell size.
GridRADIUS == 2 * (WIDTH \div BINS)

GridStart == [prog |-> "grid", at |-> "clear1", i |-> 1, mouse |-> <<0, 0>>]
HashStart == [prog |-> "hash", at |-> "insert", i |-> 1, mouse |-> <<0, 0>>]

GridAfterNoReinsert(at) ==
    CASE at = "clear1" -> "add1"
      [] at = "add1" -> "mouse"
      [] at = "mouse" -> "clear2"
      [] at = "clear2" -> "query"
      [] at = "add2" -> "query"
      [] at = "query" -> "clear1"

\* The statement that follows each statement of the grid demo's frame:
\* clear(); addBoid loop; mouse position; clear(); addBoid loop; query loop.
GridAfter(at) ==
    CASE at = "clear1" -> "add1"
      [] at = "add1" -> "mouse"
      [] at = "mouse" -> "clear2"
      [] at = "clear2" -> "add2"
      [] at = "add2" -> "query"
      [] at = "query" -> "clear1"

\* The statement that follows each statement of the hash demo: the insert
\* loop and update() before the frame loop; mouse position, query(),
\* update() in every frame.
HashAfter(at) ==
    CASE at = "insert" -> "update0"
      [] at = "update0" -> "mouse"
      [] at = "mouse" -> "query"
      [] at = "query" -> "update"
      [] at = "update" -> "mouse"

\* pc after one iteration of a loop over n items, and after a statement.
LoopStep(after, n) ==
    IF pc.i < n THEN [pc EXCEPT !.i = pc.i + 1]
    ELSE [pc EXCEPT !.at = after, !.i = 1]
Goto(after) == [pc EXCEPT !.at = after, !.i = 1]

\* binLattice.clear();
GridFrameClear ==
    /\ pc.prog = "grid"
    /\ pc.at \in {"clear1", "clear2"}
    /\ ClearCall
    /\ pc' = Goto(GridAfter(pc.at))

\* for (auto& boid : boids) binLattice.addBoid(&boid);
GridFrameAddBoid ==
    /\ pc.prog = "grid"
    /\ pc.at \in {"add1", "add2"}
    /\ pc.i \in FrameBoids
    /\ AddBoidCall(pc.i)
    /\ pc' = LoopStep(GridAfter(pc.at), Cardinality(FrameBoids))

\* mousePositionFloat = sf::Mouse::getPosition(window)
GridFrameMouse ==
    /\ pc.prog = "grid"
    /\ pc.at = "mouse"
    /\ \E m \in Positions : pc' = [pc EXCEPT !.at = GridAfter("mouse"),
                                             !.i = 1, !.mouse = m]
    /\ UNCHANGED <<gridVars, cfgVars, fnVars, hashVars, linVars, treeVars>>

\* for (auto& boid : boids) binLattice.query(mousePositionFloat, result, RADIUS);
GridFrameQuery ==
    /\ pc.prog = "grid"
    /\ pc.at = "query"
    /\ QueryCall(pc.mouse, GridRADIUS)
    /\ pc' = LoopStep(GridAfter("query"), Cardinality(FrameBoids))

\* for (int i = 0; i < N; ++i) tree.insert(Body(Vector2f(x, y)));
HashFrameInsert ==
    /\ pc.prog = "hash"
    /\ pc.at = "insert"
    /\ \E pos \in CollidingPositions : InsertCall(pos)
    /\ pc' = LoopStep(HashAfter("insert"), MaxElements)

\* tree.update();
HashFrameUpdate ==
    /\ pc.prog = "hash"
    /\ pc.at \in {"update0", "update"}
    /\ UpdateCall
    /\ pc' = Goto(HashAfter(pc.at))

\* mousePositionFloat = sf::Mouse::getPosition(window)
HashFrameMouse ==
    /\ pc.prog = "hash"
    /\ pc.at = "mouse"
    /\ \E m \in CollidingPositions :
           pc' = [pc EXCEPT !.at = HashAfter("mouse"), !.i = 1, !.mouse = m]
    /\ UNCHANGED <<gridVars, cfgVars, fnVars, hashVars, linVars, treeVars>>

\* tree.query(mousePositionFloat, Distance<Body>(mousePositionFloat, RADIUS))
HashFrameQuery ==
    /\ pc.prog = "hash"
    /\ pc.at = "query"
    /\ HashQueryCall(pc.mouse, Distance(pc.mouse, RADIUS), SIZE_MAX)
    /\ pc' = Goto(HashAfter("query"))

FrameInit ==
    /\ GridInit /\ ConfigIdle /\ HashInit /\ LinearInit /\ TreeInit
    /\ FunctionsIdle
    /\ pc \in {GridStart, HashStart}

FrameNext ==
    \/ GridFrameClear
    \/ GridFrameAddBoid
    \/ GridFrameMouse
    \/ GridFrameQuery
    \/ HashFrameInsert
    \/ HashFrameUpdate
    \/ HashFrameMouse
    \/ HashFrameQuery

SpecFrame == FrameInit /\ [][FrameNext]_vars

---------------------------------------------------------------------------
(* Properties of BinLattice                                                *)

Range(s) == {s[i] : i \in DOMAIN s}

CellW == WIDTH \div BINS
CellH == HEIGHT \div BINS

\* The boids handed to addBoid since the last clear().
AddedSet == {b \in Boids : added[b] > 0}

\* Since the last clear(), addBoid ran at most once per boid, only on boids
\* inside the world rectangle, and never on a full bin.
InsertedOnceInBounds ==
    /\ fault = "none"
    /\ \A b \in Boids : added[b] <= 1
    /\ \A b \in AddedSet : InBounds(position(b))

\* The (cell, slot) pairs that reference boid b.
SlotsOf(b) ==
    {cs \in Cells \X (1..BIN_SIZE) :
        /\ cs[2] <= lattice[cs[1]].second
        /\ cs[2] <= Len(lattice[cs[1]].first)
        /\ lattice[cs[1]].first[cs[2]] = b}

\* Position p lies in the rectangle of cell c.
CellContains(c, p) ==
    /\ c[1] * CellW <= p[1] /\ p[1] < (c[1] + 1) * CellW
    /\ c[2] * CellH <= p[2] /\ p[2] < (c[2] + 1) * CellH

RECURSIVE OccupancySum(_)
OccupancySum(k) ==
    IF k = 0 THEN 0
    ELSE lattice[<<(k - 1) \div BINS, (k - 1) % BINS>>].second
         + OccupancySum(k - 1)

\* C1: with the boids of an in-bounds set P inserted once each after clear()
\* and no bin over capacity, a query with an in-bounds centre and a radius
\* of at most the cell size returns, as a set, exactly the boids of P at a
\* Euclidean distance strictly below the radius.
C1_QueryExact ==
    (/\ lastQuery.called
     /\ InsertedOnceInBounds
     /\ InBounds(lastQuery.centre)
     /\ lastQuery.radius <= CellW
     /\ lastQuery.radius <= CellH)
    => Range(lastQuery.result) =
           {b \in AddedSet :
               DistSquared(position(b), lastQuery.centre)
                   < lastQuery.radius * lastQuery.radius}

C1_Witness ==
    /\ lastQuery.called
    /\ InsertedOnceInBounds
    /\ InBounds(lastQuery.centre)
    /\ lastQuery.radius <= CellW
    /\ Cardinality(AddedSet) = 3
    /\ Cardinality(Range(lastQuery.result)) = 2
    /\ \E b, c \in Range(lastQuery.result) :
           \E s \in SlotsOf(b), t \in SlotsOf(c) : s[1] # t[1]

\* C2: addBoid on a bin that already holds BIN_SIZE boids is an explicit
\* CapacityExceeded condition: it never stores past the bin's array.
C2_NoStorePastBin == fault # "bin_overflow"

\* C3: for a centre in column (row) 0 the scanned columns (rows) are exactly
\* 0 and 1: index 0 + (-1) is clamped to 0 and the opposite edge BINS - 1 is
\* never scanned.
C3_ClampedToEdge ==
    (lastQuery.called /\ InBounds(lastQuery.centre))
    => /\ lastQuery.xIndex = 0 =>
              {lastQuery.scanned[k][1] : k \in DOMAIN lastQuery.scanned} = {0, 1}
       /\ lastQuery.yIndex = 0 =>
              {lastQuery.scanned[k][2] : k \in DOMAIN lastQuery.scanned} = {0, 1}

\* C4: addBoid and query treat a position outside the world rectangle by the
\* same policy, and neither indexes the lattice outside [0, BINS) x [0, BINS).
C4_NoIndexOutsideLattice == fault # "lattice_index"

\* C6: after clear() and one addBoid per boid of an in-bounds set P within
\* capacity, every boid of P is referenced by exactly one slot, in the bin
\* of the cell containing it; no bin references a boid outside P; the
\* occupancy counts sum to |P|.
C6_ExactlyOneBin ==
    InsertedOnceInBounds
    => /\ \A b \in AddedSet :
              /\ Cardinality(SlotsOf(b)) = 1
              /\ \A cs \in SlotsOf(b) : CellContains(cs[1], position(b))
       /\ \A c \in Cells : lattice[c].second = Len(lattice[c].first)
       /\ \A c \in Cells : Range(lattice[c].first) \subseteq AddedSet
       /\ OccupancySum(BINS * BINS) = Cardinality(AddedSet)

C6_Witness ==
    /\ InsertedOnceInBounds
    /\ Cardinality(AddedSet) = 3
    /\ \E c \in Cells : lattice[c].second = 2
    /\ \E c \in Cells : lattice[c].second = 1

\* On an edge shared by two cells: a multiple of the cell size, not 0.
OnSharedEdge(x, cellLen) == x > 0 /\ x % cellLen = 0

\* C7 as stated: a boid whose coordinate is k * cellSize (0 < k < BINS) is
\* stored in the lower-indexed of the two cells sharing that edge, k - 1.
C7_EdgeInLowerCell ==
    \A c \in Cells : \A i \in 1..Len(lattice[c].first) :
        LET p == position(lattice[c].first[i])
        IN (InBounds(p) /\ OnSharedEdge(p[1], CellW))
           => c[1] = (p[1] \div CellW) - 1

\* C7 amended: such a boid is stored in the higher-indexed of the two cells,
\* cell k, whose lower edge the coordinate is (on either axis).
C7_EdgeInUpperCell ==
    \A c \in Cells : \A i \in 1..Len(lattice[c].first) :
        LET p == position(lattice[c].first[i])
        IN InBounds(p)
           => /\ OnSharedEdge(p[1], CellW) => c[1] * CellW = p[1]
              /\ OnSharedEdge(p[2], CellH) => c[2] * CellH = p[2]

C7_Witness ==
    /\ fault = "none"
    /\ \E c \in Cells : \E i \in 1..Len(lattice[c].first) :
           LET p == position(lattice[c].first[i])
           IN InBounds(p) /\ OnSharedEdge(p[1], CellW) /\ c[1] * CellW = p[1]

\* C8: with every bin holding at most BIN_SIZE boids, query writes at most
\* MaxQuerySize = 9 * BIN_SIZE entries, for every centre and radius.
C8_ResultWithinMaxQuerySize ==
    (lastQuery.called /\ \A c \in Cells : lattice[c].second <= BIN_SIZE)
    => Len(lastQuery.result) <= MaxQuerySize

C8_Witness ==
    /\ lastQuery.called
    /\ \A c \in Cells : lattice[c].second <= BIN_SIZE
    /\ \E c \in Cells : lattice[c].second = BIN_SIZE
    /\ Len(lastQuery.result) >= 4 * BIN_SIZE

---------------------------------------------------------------------------
(* Properties of the cell index over the template arguments                *)

\* C5: for every WIDTH, HEIGHT, BINS >= 1 the cell index of a position of
\* [0, WIDTH) x [0, HEIGHT) is a cell of [0, BINS) x [0, BINS).
C5_CellIndexInLattice ==
    cfgCell # NoCell
    => /\ cfgCell[1] \in 0..(cfg.bins - 1)
       /\ cfgCell[2] \in 0..(cfg.bins - 1)

---------------------------------------------------------------------------
(* Properties of SpatialHashing                                            *)

\* The 0-based indices of the elements whose cell hashes to bucket b.
Members(b) ==
    {k \in 0..(Len(elements) - 1) : BucketOf(elements[k + 1]) = b}

\* The entries of hashtable in the slots [pivots[b], pivots[b + 1]).
BucketSlots(b) ==
    {i \in 0..(Len(hashtable) - 1) : At(pivots, b) <= i /\ i < At(pivots, b + 1)}

\* C9: after update() over n elements, pivots has pivotTableSize + 1
\* entries, pivots[0] = 0, pivots[pivotTableSize] = n, and pivots is
\* non-decreasing.
C9_PivotsPrefixSums ==
    indexed
    => /\ Len(pivots) = pivotTableSize + 1
       /\ At(pivots, 0) = 0
       /\ At(pivots, pivotTableSize) = Len(elements)
       /\ \A b \in 0..(pivotTableSize - 1) : At(pivots, b) <= At(pivots, b + 1)

C9_Witness ==
    /\ indexed
    /\ Len(elements) = 3
    /\ \E b \in 1..(pivotTableSize - 1) :
           /\ At(pivots, b) > 0
           /\ At(pivots, b) < Len(elements)

\* C10: after update() over n elements, hashtable is a permutation of
\* 0..n-1 and the slots [pivots[b], pivots[b + 1]) of every bucket b hold
\* exactly the indices of the elements whose cell hashes to b.
C10_BucketsPartitionElements ==
    indexed
    => /\ Len(hashtable) = Len(elements)
       /\ Range(hashtable) = 0..(Len(elements) - 1)
       /\ \A b \in 0..(pivotTableSize - 1) :
              /\ {At(hashtable, i) : i \in BucketSlots(b)} = Members(b)
              /\ Cardinality(BucketSlots(b)) = Cardinality(Members(b))

C10_Witness ==
    /\ indexed
    /\ Len(elements) = 3
    /\ \E b, c \in 0..(pivotTableSize - 1) :
           /\ b < c
           /\ Cardinality(Members(b)) + Cardinality(Members(c)) = 3
           /\ Members(b) # {}
           /\ Members(c) # {}
           /\ \E j \in Members(b), k \in Members(c) : k < j

\* The elements of bucket b that satisfy pred (0-based indices).
MatchingMembers(b, pred) ==
    {k \in Members(b) : Holds(pred, At(elements, k))}

\* C11: after update(), query(q, pred) with the default maxClosest returns
\* exactly the elements of the bucket of q's cell that satisfy pred, each
\* once: none of them is missing, no element of another bucket is returned,
\* and an element of a far cell colliding into the bucket is returned only
\* if it satisfies pred.
C11_QueryExactInBucket ==
    (hashQuery.called /\ indexed /\ hashQuery.maxClosest = SIZE_MAX)
    => /\ hashQuery.fault = "none"
       /\ Range(hashQuery.result) =
              MatchingMembers(hashQuery.pivot_index, hashQuery.pred)
       /\ Len(hashQuery.result) =
              Cardinality(MatchingMembers(hashQuery.pivot_index, hashQuery.pred))

\* A Distance query around q whose bucket also holds an element of a cell
\* four cells away, which is not returned, while another bucket is in use.
C11_Witness ==
    /\ hashQuery.called /\ indexed /\ hashQuery.maxClosest = SIZE_MAX
    /\ hashQuery.pred.kind = "Distance"
    /\ Len(hashQuery.result) = 1
    /\ \E k \in Members(hashQuery.pivot_index) :
           /\ getCellCoordinates(At(elements, k))[1]
                  > getCellCoordinates(hashQuery.point)[1] + 1
           /\ k \notin Range(hashQuery.result)
    /\ \E b \in 0..(pivotTableSize - 1) :
           b # hashQuery.pivot_index /\ Members(b) # {}

\* The number of elements at position pos.
CopiesOf(pos) ==
    Cardinality({k \in 0..(Len(elements) - 1) : At(elements, k) = pos})

\* The number of slots of bucket b that refer to an element at position pos.
CopiesInBucket(b, pos) ==
    Cardinality({i \in BucketSlots(b) : At(elements, At(hashtable, i)) = pos})

\* C12: a rebuild is membership-idempotent.  After update() the pivot array
\* and the members of every bucket are a function of the collection of
\* elements alone: pivots[b] is the number of elements hashing below b and
\* bucket b holds every element hashing to b and nothing else, whatever the
\* insertion order, the clear() calls and the rebuilds that came before.
C12_RebuildDeterminedByElements ==
    indexed
    => /\ \A b \in 0..pivotTableSize :
              At(pivots, b) =
                  Cardinality({k \in 0..(Len(elements) - 1) :
                                  BucketOf(At(elements, k)) < b})
       /\ \A b \in 0..(pivotTableSize - 1) : \A pos \in HashPositions :
              CopiesInBucket(b, pos) =
                  IF BucketOf(pos) = b THEN CopiesOf(pos) ELSE 0

\* A rebuild over three elements of two buckets, inserted neither in bucket
\* order nor in reverse bucket order.
C12_Witness ==
    /\ indexed
    /\ Len(elements) = 3
    /\ \E j, k \in 0..(Len(elements) - 1) :
           j < k /\ BucketOf(At(elements, j)) > BucketOf(At(elements, k))
    /\ \E j, k \in 0..(Len(elements) - 1) :
           j < k /\ BucketOf(At(elements, j)) < BucketOf(At(elements, k))
    /\ Len(shuffler) = 3

\* The place of element k in the permutation std::shuffle left in shuffler.
ShufflePlace(k) == CHOOSE i \in 1..Len(shuffler) : shuffler[i] = k

\* C13: the permutation in shuffler determines the order in which update()
\* scatters the elements: within every bucket the slots hold the elements in
\* the order the permutation lists them.
C13_ScatterFollowsShuffler ==
    indexed
    => \A b \in 0..(pivotTableSize - 1) : \A i, j \in BucketSlots(b) :
           i < j => ShufflePlace(At(hashtable, i)) < ShufflePlace(At(hashtable, j))

\* C15: after update(), query(q, pred, k) returns min(k, m) elements, m
\* being the number of elements of q's bucket that satisfy pred; elements
\* of the bucket that do not satisfy pred do not use up the cap.
C15_ReturnsMinOfCapAndMatches ==
    (hashQuery.called /\ indexed)
    => Len(hashQuery.result) =
           Min(hashQuery.maxClosest,
               Cardinality(MatchingMembers(hashQuery.pivot_index,
                                           hashQuery.pred)))

---------------------------------------------------------------------------
(* Properties of Collection and RTree                                      *)

\* The 0-based indices of the values of els that satisfy pred.
Matching(els, pred) ==
    {k \in 0..(Len(els) - 1) : Holds(pred, At(els, k))}

\* C14: Collection::query(pred, k) returns the first min(k, m) elements
\* satisfying pred in insertion order, m being the number of elements that
\* satisfy pred: nothing for k = 0, all m for the default k.
C14_FirstMatchesInOrder ==
    colQuery.called
    => LET m == Matching(colElements, colQuery.pred)
           n == Min(colQuery.maxClosest, Cardinality(m))
       IN /\ Len(colQuery.result) = n
          /\ \A i \in 1..n :
                 /\ colQuery.result[i] \in m
                 /\ Cardinality({j \in m : j < colQuery.result[i]}) = i - 1

\* A capped query: two elements match, one that does not match was inserted
\* before them, and the first match alone is returned.
C14_Witness ==
    /\ colQuery.called
    /\ colQuery.maxClosest = 1
    /\ Cardinality(Matching(colElements, colQuery.pred)) = 2
    /\ 0 \notin Matching(colElements, colQuery.pred)
    /\ colQuery.result = <<1>>

\* C16: for the same inserted elements, predicate and cap k, RTree::query
\* returns as many elements as Collection::query, min(k, m) of them, all
\* satisfying the predicate and none twice, in whatever order the tree
\* visits its values.
C16_TreeMatchesLinearOracle ==
    treeQuery.called
    => /\ Len(treeQuery.result) =
              Len(CollectionQuery(rtree, 0, 0, treeQuery.pred,
                                  treeQuery.maxClosest))
       /\ Range(treeQuery.result) \subseteq Matching(rtree, treeQuery.pred)
       /\ Cardinality(Range(treeQuery.result)) = Len(treeQuery.result)

\* The exact bounding box of a non-empty sequence of positions.
ExactBox(els) ==
    LET xs == {els[k][1] : k \in 1..Len(els)}
        ys == {els[k][2] : k \in 1..Len(els)}
        l == CHOOSE x \in xs : \A y \in xs : x <= y
        r == CHOOSE x \in xs : \A y \in xs : y <= x
        t == CHOOSE x \in ys : \A y \in ys : x <= y
        d == CHOOSE x \in ys : \A y \in ys : y <= x
    IN [left |-> l, top |-> t, width |-> r - l, height |-> d - t]

\* C17: after any sequence of insert() and clear() calls, Collection::bounds()
\* is the exact bounding box of the elements stored now; it includes neither
\* the origin nor a point dropped by an earlier clear() unless a stored
\* element lies there.
C17_CollectionBoundsExact ==
    Len(colElements) > 0 => colBox = ExactBox(colElements)

\* C18: after inserting a non-empty set of elements, RTree::bounds() is the
\* exact bounding box of the inserted points.
C18_TreeBoundsExact ==
    Len(rtree) > 0 => RTreeBounds = ExactBox(rtree)

---------------------------------------------------------------------------
(* Properties of the frame loops                                           *)

\* C19: every query of a frame reads the bucketing of a completed rebuild.
\* In the hash demo a query() runs on an index update() has built with no
\* insert() or clear() since; in the grid demo a query runs after clear() and
\* one addBoid per boid, every boid being in exactly one bin.
C19_QueryFollowsRebuild ==
    /\ (pc.prog = "hash" /\ hashQuery.called)
       => (indexed /\ hashQuery.fault = "none")
    /\ (pc.prog = "grid" /\ lastQuery.called)
       => /\ \A b \in Boids : added[b] = IF b \in FrameBoids THEN 1 ELSE 0
          /\ \A b \in FrameBoids : Cardinality(SlotsOf(b)) = 1

\* The last query of a frame's batch in the grid demo, with boids found.
C19_Witness ==
    /\ pc.prog = "grid"
    /\ pc.at = "clear1"
    /\ lastQuery.called
    /\ Len(lastQuery.result) >= 2

---------------------------------------------------------------------------
(* Properties shared by the backends                                       *)

\* C20: right after clear(), with no insert since, the spatial hash holds no
\* element (size() is 0) and a query with any point, predicate and cap
\* returns an empty result as a normal outcome (on an index update() has
\* built at least once).
C20_HashEmptyAfterClear ==
    (hashQuery.called /\ Len(elements) = 0 /\ Len(pivots) > 0)
    => (hashQuery.result = <<>> /\ hashQuery.fault = "none")

---------------------------------------------------------------------------
(* One index queried again and again by its caller.  pc holds the index    *)
(* in use and whether the latest query repeated the one before it.         *)

RequeryCentres == {<<1, 1>>, <<3, 3>>, <<5, 0>>}
RequeryRadii == {1, MaxRadius}

RequeryInit ==
    /\ GridInit /\ ConfigIdle /\ HashInit /\ LinearInit /\ TreeInit
    /\ FunctionsIdle
    /\ pc \in {[prog |-> "lattice", again |-> FALSE],
               [prog |-> "hashing", again |-> FALSE],
               [prog |-> "collection", again |-> FALSE]}

LatticeClear == pc.prog = "lattice" /\ Clear

LatticeAddBoid == pc.prog = "lattice" /\ \E b \in Boids : AddBoid(b)

\* The first query after the latest addBoid or clear.
LatticeQuery ==
    /\ pc.prog = "lattice"
    /\ ~lastQuery.called
    /\ \E centre \in RequeryCentres, radius \in RequeryRadii :
           QueryCall(centre, radius)
    /\ pc' = [pc EXCEPT !.again = FALSE]

\* The same query once more.
LatticeRequery ==
    /\ pc.prog = "lattice"
    /\ lastQuery.called
    /\ QueryCall(lastQuery.centre, lastQuery.radius)
    /\ pc' = [pc EXCEPT !.again = TRUE]

HashingInsert == pc.prog = "hashing" /\ \E pos \in HashPositions : Insert(pos)

HashingClear == pc.prog = "hashing" /\ HashClear

HashingUpdate == pc.prog = "hashing" /\ Update

HashingQuery ==
    /\ pc.prog = "hashing"
    /\ ~hashQuery.called
    /\ \E point \in HashPositions :
           HashQueryCall(point, Distance(point, RADIUS), SIZE_MAX)
    /\ pc' = [pc EXCEPT !.again = FALSE]

HashingRequery ==
    /\ pc.prog = "hashing"
    /\ hashQuery.called
    /\ HashQueryCall(hashQuery.point, hashQuery.pred, hashQuery.maxClosest)
    /\ pc' = [pc EXCEPT !.again = TRUE]

CollectionInsert ==
    pc.prog = "collection" /\ \E pos \in CollidingPositions : ColInsert(pos)

CollectionClear == pc.prog = "collection" /\ ColClear

CollectionFirstQuery ==
    /\ pc.prog = "collection"
    /\ ~colQuery.called
    /\ \E pred \in Predicates, maxClosest \in {1, SIZE_MAX} :
           ColQueryCall(pred, maxClosest)
    /\ pc' = [pc EXCEPT !.again = FALSE]

CollectionRequery ==
    /\ pc.prog = "collection"
    /\ colQuery.called
    /\ ColQueryCall(colQuery.pred, colQuery.maxClosest)
    /\ pc' = [pc EXCEPT !.again = TRUE]

RequeryNext ==
    \/ LatticeClear
    \/ LatticeAddBoid
    \/ LatticeQuery
    \/ LatticeRequery
    \/ HashingInsert
    \/ HashingClear
    \/ HashingUpdate
    \/ HashingQuery
    \/ HashingRequery
    \/ CollectionInsert
    \/ CollectionClear
    \/ CollectionFirstQuery
    \/ CollectionRequery

SpecRequery == RequeryInit /\ [][RequeryNext]_vars

\* C21: a query changes nothing it reads.  The grid query leaves every bin
\* and every count as it was; the hash query leaves elements, pivots,
\* hashtable and box as they were, and so does the linear query with its
\* elements and box; a query that repeats the one made just before it, with
\* no mutation in between, returns what that one returned.
C21_QueryReadOnly ==
    [][/\ lastQuery'.called =>
              /\ lattice' = lattice
              /\ (lastQuery.called /\ lastQuery.centre = lastQuery'.centre
                      /\ lastQuery.radius = lastQuery'.radius)
                 => lastQuery'.result = lastQuery.result
       /\ hashQuery'.called =>
              /\ elements' = elements /\ pivots' = pivots
              /\ hashtable' = hashtable /\ box' = box
              /\ (hashQuery.called /\ hashQuery.point = hashQuery'.point
                      /\ hashQuery.pred = hashQuery'.pred
                      /\ hashQuery.maxClosest = hashQuery'.maxClosest)
                 => hashQuery'.result = hashQuery.result
       /\ colQuery'.called =>
              /\ colElements' = colElements /\ colBox' = colBox
              /\ (colQuery.called /\ colQuery.pred = colQuery'.pred
                      /\ colQuery.maxClosest = colQuery'.maxClosest)
                 => colQuery'.result = colQuery.result]_vars

\* The same grid query made twice in a row on a lattice that holds a boid
\* in its range.
C21_Witness ==
    /\ pc.prog = "lattice"
    /\ lastQuery.called
    /\ pc.again
    /\ Len(lastQuery.result) > 0

---------------------------------------------------------------------------
(* Configuration errors                                                    *)

\* C22: an invalid configuration is rejected at construction.  A lattice
\* whose resolution exceeds a world dimension (cell size WIDTH / BINS or
\* HEIGHT / BINS equal to 0) is never in use: no cell index is ever
\* computed with it.
C22_InvalidConfigurationRejected ==
    cfgCell # NoCell
    => /\ cfg.w \div cfg.bins > 0
       /\ cfg.h \div cfg.bins > 0

---------------------------------------------------------------------------
(* The grid demo's own configuration                                       *)

\* C23: in the grid demo (RADIUS twice the cell size) the 3x3 block of
\* bins around the mouse is enough: every boid of the frame that lies
\* within RADIUS of a mouse position inside the window is in the result of
\* the frame's query.
C23_ThreeByThreeSufficient ==
    (pc.prog = "grid" /\ lastQuery.called /\ InBounds(lastQuery.centre))
    => \A b \in FrameBoids :
           (added[b] > 0
               /\ DistSquared(position(b), lastQuery.centre)
                      < GridRADIUS * GridRADIUS)
           => b \in Range(lastQuery.result)

---------------------------------------------------------------------------
(* Functions of the geometry classes and of the hash, each called once on  *)
(* arguments drawn from bounded sets: call holds the function and its      *)
(* arguments, ret what it returned.                                        *)

MaxCoord == 2       \* largest coordinate and extent tried

\* std::min(a, b) and std::max(a, b)
StdMin(a, b) == IF b < a THEN b ELSE a
StdMax(a, b) == IF a < b THEN b ELSE a

containsClosed(b, x, y) ==
    LET minX == StdMin(b.left, b.left + b.width)
        maxX == StdMax(b.left, b.left + b.width)
        minY == StdMin(b.top, b.top + b.height)
        maxY == StdMax(b.top, b.top + b.height)
    IN  (x >= minX) /\ (x <= maxX) /\ (y >= minY) /\ (y <= maxY)

\* bool contains(T x, T y) const
contains(b, x, y) ==
    LET minX == StdMin(b.left, b.left + b.width)
        maxX == StdMax(b.left, b.left + b.width)
        minY == StdMin(b.top, b.top + b.height)
        maxY == StdMax(b.top, b.top + b.height)
    IN  (x >= minX) /\ (x < maxX) /\ (y >= minY) /\ (y < maxY)

\* Box(T rectLeft, T rectTop, T rectWidth, T rectHeight), extents of either
\* sign, and the points around it.
ContainsCalls ==
    {[fn |-> "contains",
      box |-> [left |-> l, top |-> t, width |-> w, height |-> h],
      x |-> x, y |-> y] :
        l \in {0 - 1, 0}, t \in {0, 1},
        w \in (0 - MaxCoord)..MaxCoord, h \in (0 - MaxCoord)..MaxCoord,
        x \in (0 - MaxCoord)..MaxCoord, y \in (0 - MaxCoord)..(MaxCoord + 1)}

BoxContains ==
    /\ call.fn = "contains"
    /\ ret = NoReturn
    /\ ret' = [returned |-> TRUE,
               value |-> contains(call.box, call.x, call.y)]
    /\ UNCHANGED <<call, gridVars, cfgVars, hashVars, linVars, treeVars, pc>>

\* auto lengthSquared() const
lengthSquared(v) == v[1] * v[1] + v[2] * v[2]

\* constexpr auto operator==(const class_type& right) const
Equals(a, b) == a[1] = b[1] /\ a[2] = b[2]

\* auto operator<=>(const class_type& right) const
\*     { return lengthSquared() <=> right.lengthSquared(); }
ThreeWay(a, b) ==
    IF lengthSquared(a) < lengthSquared(b) THEN "less"
    ELSE IF lengthSquared(a) > lengthSquared(b) THEN "greater"
    ELSE "equivalent"

\* The vectors compared.
Vectors == ((0 - MaxCoord)..MaxCoord) \X ((0 - MaxCoord)..MaxCoord)

CompareCalls == {[fn |-> "compare", a |-> a, b |-> b] : a, b \in Vectors}

\* a <=> b and a == b on the same pair of vectors.
Vector2Compare ==
    /\ call.fn = "compare"
    /\ ret = NoReturn
    /\ ret' = [returned |-> TRUE,
               value |-> ThreeWay(call.a, call.b),
               equal |-> Equals(call.a, call.b)]
    /\ UNCHANGED <<call, gridVars, cfgVars, hashVars, linVars, treeVars, pc>>

\* coord.x * prime.x is a product of two ints: it is defined when it fits
\* in 32 bits.
FitsInt(a, prime) == (IF a < 0 THEN 0 - a ELSE a) <= 2147483647 \div prime

\* static_cast<uint>(a * prime).  A product that does not fit is a signed
\* overflow, undefined behaviour: the build leaves the low 32 bits of the
\* product, or any other value, of which the two extremes of int stand
\* here.
ProductOutcomes(a, prime) ==
    IF FitsInt(a, prime) THEN {Mul32(a, prime)}
    ELSE {Mul32(a, prime), <<32767, 65535>>, <<32768, 0>>}

\* The values hash(coord) can return.
hashOutcomes(coord) ==
    {<<Xor(px[1], py[1]), Xor(px[2], py[2])>> :
        px \in ProductOutcomes(coord[1], 15823),
        py \in ProductOutcomes(coord[2], 9737333)}

\* The values getCellIndex(coord) can return.
getCellIndexOutcomes(coord) == {IndexOfHash(h) : h \in hashOutcomes(coord)}

\* Cell coordinates: around the origin, multiples of 221 (from where on
\* the product with 9737333 leaves 32 bits) and the 16-bit extremes.
CellCoords ==
    ((0 - MaxCoord)..MaxCoord) \cup {k * 221 : k \in (0 - MaxCoord)..MaxCoord}
        \cup {0 - 32768, 32767}

CellIndexCalls ==
    {[fn |-> "getCellIndex", coord |-> <<x, y>>] : x, y \in CellCoords}

HashCellIndex ==
    /\ call.fn = "getCellIndex"
    /\ ret = NoReturn
    /\ \E index \in getCellIndexOutcomes(call.coord) :
           ret' = [returned |-> TRUE, value |-> index]
    /\ UNCHANGED <<call, gridVars, cfgVars, hashVars, linVars, treeVars, pc>>

FunctionsInit ==
    /\ call \in ContainsCalls \cup CompareCalls \cup CellIndexCalls
    /\ ret = NoReturn
    /\ GridInit /\ ConfigIdle /\ HashInit /\ LinearInit /\ TreeInit
    /\ pc = NoProgram

FunctionsNext ==
    \/ BoxContains
    \/ Vector2Compare
    \/ HashCellIndex

SpecFunctions == FunctionsInit /\ [][FunctionsNext]_vars

\* C24: Box is the half-open rectangle [left, left + width) x
\* [top, top + height): for a box of non-negative width and height,
\* contains(x, y) holds exactly when left <= x < left + width and
\* top <= y < top + height.  Points on the left and top edges are inside,
\* points on the right and bottom edges outside, and a box of zero width
\* or height contains nothing.
C24_BoxHalfOpen ==
    (call.fn = "contains" /\ ret.returned
        /\ call.box.width >= 0 /\ call.box.height >= 0)
    => (ret.value <=>
            /\ call.box.left <= call.x
            /\ call.x < call.box.left + call.box.width
            /\ call.box.top <= call.y
            /\ call.y < call.box.top + call.box.height)

\* contains returned true for the top-left corner of a box with positive
\* extents.
C24_Witness ==
    /\ call.fn = "contains"
    /\ ret.returned
    /\ call.box.width > 0 /\ call.box.height > 0
    /\ call.x = call.box.left /\ call.y = call.box.top
    /\ ret.value

\* C25: Vector2 values are ordered by their components: a <=> b reports
\* equivalence exactly when a == b.
C25_OrderingConsistentWithEquality ==
    (call.fn = "compare" /\ ret.returned)
    => ((ret.value = "equivalent") <=> ret.equal)

---------------------------------------------------------------------------
(* The grid result as a set                                                *)

\* C26: the grid query returns a set.  With every boid added at most once
\* since clear(), inside the world and with no bin over capacity, no boid
\* appears more than once among the result.second entries written, for
\* every centre inside the world, the edge and corner cells included.
C26_ResultHasNoDuplicates ==
    (lastQuery.called /\ InsertedOnceInBounds /\ InBounds(lastQuery.centre))
    => \A b \in AddedSet :
           Cardinality({k \in 1..Len(lastQuery.result) :
                           lastQuery.result[k] = b}) <= 1

---------------------------------------------------------------------------
(* Memory safety and staleness of SpatialHashing                           *)

\* C27: after any sequence of insert(), clear() and update() calls from
\* construction on, a query() reads only valid positions:
\* pivot_index + 1 < pivots.size(), every scanned slot i < hashtable.size()
\* and every hashtable[i] < elements.size().
C27_QueryReadsValidPositions ==
    hashQuery.called
    => /\ hashQuery.pivot_index + 1 < Len(pivots)
       /\ \A i \in ScannedSlots(At(pivots, hashQuery.pivot_index),
                                At(pivots, hashQuery.pivot_index + 1),
                                hashQuery.maxClosest) :
              /\ i < Len(hashtable)
              /\ At(hashtable, i) < Len(elements)

\* A caller of SpatialHashing that keeps count of what its last update()
\* covered: pc.kept is the number of elements that were in the collection
\* at the last update() and have not been cleared since, so that the
\* elements at the indices pc.kept and above were inserted after it.
StaleStart == [prog |-> "stale", kept |-> 0]

StaleInit ==
    /\ GridInit /\ ConfigIdle /\ HashInit /\ LinearInit /\ TreeInit
    /\ FunctionsIdle
    /\ pc = StaleStart

StaleInsert ==
    /\ pc.prog = "stale"
    /\ \E pos \in HashPositions : InsertCall(pos)
    /\ UNCHANGED pc

StaleClear ==
    /\ pc.prog = "stale"
    /\ HashClearCall
    /\ pc' = [pc EXCEPT !.kept = 0]

StaleUpdate ==
    /\ pc.prog = "stale"
    /\ UpdateCall
    /\ pc' = [pc EXCEPT !.kept = Len(elements)]

StaleQuery ==
    /\ pc.prog = "stale"
    /\ ~hashQuery.called
    /\ \E point \in HashPositions : \E pred \in PredicatesAt(point) :
           HashQueryCall(point, pred, SIZE_MAX)
    /\ UNCHANGED pc

StaleNext ==
    \/ StaleInsert
    \/ StaleClear
    \/ StaleUpdate
    \/ StaleQuery

SpecStale == StaleInit /\ [][StaleNext]_vars

\* C28: an element inserted after the last update() is never returned by
\* query() until update() is called again: a query whose reads are all in
\* range returns only elements the last update() covered.
C28_NotReturnedBeforeUpdate ==
    (hashQuery.called /\ hashQuery.fault = "none")
    => \A k \in Range(hashQuery.result) : k < pc.kept

---------------------------------------------------------------------------
(* The bucket index of a cell                                              *)

\* C29: for every integer cell coordinate, the negative ones and those
\* whose product with a hash prime leaves 32 bits included, getCellIndex
\* returns a bucket index in [0, pivotTableSize), so that pivots[index] and
\* pivots[index + 1] exist in the pivotTableSize + 1 entries update()
\* leaves.
C29_CellIndexInTable ==
    (call.fn = "getCellIndex" /\ ret.returned)
    => /\ ret.value >= 0
       /\ ret.value < pivotTableSize

\* getCellIndex returned for a cell with a negative x whose y overflows the
\* product with the prime.
C29_Witness ==
    /\ call.fn = "getCellIndex"
    /\ ret.returned
    /\ call.coord[1] < 0
    /\ ~FitsInt(call.coord[2], 9737333)
    /\ ret.value \in 0..(pivotTableSize - 1)

---------------------------------------------------------------------------
(* Short-circuit of the linear query                                       *)

\* C30: once Collection::query has collected maxResults results it
\* evaluates the predicate on no further element: when the result holds
\* maxResults >= 1 elements, the number of predicate evaluations is at most
\* the position (counted from 1) of the last of them.
C30_ShortCircuitAtCap ==
    (colQuery.called /\ colQuery.maxClosest > 0
        /\ Len(colQuery.result) = colQuery.maxClosest)
    => colQuery.evaluated <= colQuery.result[Len(colQuery.result)] + 1

===========================================================================
